---- MODULE Spec2Model ----
(***************************************************************************)
(* Model of app.py: the Flask chat relay in front of a local Ollama        *)
(* server.  One MedicalChatbot instance (medical_bot) is shared by all     *)
(* request threads; every request thread is a process p of Procs.  A       *)
(* thread is interleaved with the others at its blocking network calls     *)
(* (the probe GET and the generation POST); the code between two network   *)
(* calls touches shared state only through list.append, which the          *)
(* interpreter executes as one indivisible operation.                      *)
(* Console logging (the print calls) and page rendering are left out; the  *)
(* upstream server is the environment and may answer in any way.           *)
(***************************************************************************)
EXTENDS Integers, Sequences, FiniteSets, TLC

\* ------------------------------------------------------------------ bounds
MaxRequests == 3
MaxCallerOps == 1

\* --------------------------------------------------------------- constants
DefaultModel == "llama3.2:3b"
HttpOk == 200
BadRequest == 400
ServerError == 500

\* ------------------------------------------------------------ Python values
\* A Python value that travels through the handlers.  t is its type; for a
\* str built by an f-string, s is the literal template and status / model /
\* exc are the values formatted into it; chars holds a str given as a
\* sequence of characters (the user's message).
PyVal(t, s, n) == [t |-> t, s |-> s, n |-> n, chars |-> <<>>,
                   status |-> 0, model |-> "", exc |-> ""]
PyStr(s) == PyVal("str", s, 0)
PyNum(n) == PyVal("num", "", n)
PyNone == PyVal("none", "", 0)
PyChars(cs) == [PyVal("str", "", 0) EXCEPT !.chars = cs]

\* Python truthiness, as used by "if not x".
Truthy(v) ==
    CASE v.t = "str" -> v.s # "" \/ v.chars # <<>>
      [] v.t = "num" -> v.n # 0
      [] OTHER -> FALSE

\* Whether v[:100] evaluates: str supports slicing, int and None do not.
Sliceable(v) == v.t = "str"

\* The request threads of the server.
Procs == {"t1", "t2"}

\* ------------------------------------------------------------------ str.strip
\* The messages tried: empty, blanks only, padded on both sides, plain.
IsSpace(c) == c \in {" ", "\t", "\n"}
Strings == {<<>>, <<" ", "\t">>, <<" ", "a", "\n">>, <<"b", " ", "c">>}

RECURSIVE lstrip(_)
lstrip(s) ==
    IF s = <<>> THEN s
    ELSE IF IsSpace(Head(s)) THEN lstrip(Tail(s)) ELSE s

RECURSIVE rstrip(_)
rstrip(s) ==
    IF s = <<>> THEN s
    ELSE IF IsSpace(s[Len(s)]) THEN rstrip(SubSeq(s, 1, Len(s) - 1)) ELSE s

strip(s) == rstrip(lstrip(s))

\* ------------------------------------------------------------ request bodies
\* What request.get_json() hands to chat(): None (a JSON null body), or an
\* object that may carry a "message" member of any JSON type.
NoBody == [t |-> "none", has |-> FALSE, message |-> PyNone]
JsonObject(has, m) == [t |-> "obj", has |-> has, message |-> m]
Bodies ==
    {NoBody, JsonObject(FALSE, PyNone), JsonObject(TRUE, PyNone),
     JsonObject(TRUE, PyNum(5))}
    \cup {JsonObject(TRUE, PyChars(cs)) : cs \in Strings}

\* ------------------------------------------------------------ upstream replies
Statuses == {200, 201, 404}
ExcClasses == {"Timeout", "ConnectionError", "RequestException", "Exception"}
ExcTexts == {"e1", "e2"}
NoExc == [class |-> "", text |-> ""]
Exc(c, x) == [class |-> c, text |-> x]

\* Outcomes of requests.get(".../api/tags", timeout=5).
ProbeOutcomes ==
    {[raised |-> FALSE, status |-> s] : s \in {200, 500}}
    \cup {[raised |-> TRUE, status |-> 0]}

\* Shapes of the body of the generation reply:
\*   "unparsable"  response.json() raises,
\*   "nonobject"   the JSON value is not an object (result.get raises),
\*   "object"      an object whose "response" member is absent or is field.
ReplyBody(shape, has, field) == [shape |-> shape, has |-> has, field |-> field]
Fields == {PyStr(""), PyStr("Take fluids"), PyNone, PyNum(42)}
ReplyBodies ==
    {ReplyBody("unparsable", FALSE, PyNone), ReplyBody("nonobject", FALSE, PyNone),
     ReplyBody("object", FALSE, PyNone)}
    \cup {ReplyBody("object", TRUE, f) : f \in Fields}

\* Outcomes of requests.post(self.ollama_url, ..., timeout=60): an exception,
\* or a reply with a status and a body.  jsonexc is the class of exception
\* response.json() raises on an unparsable body: JSONDecodeError derives from
\* RequestException in current releases of requests and from ValueError only
\* in older ones.
Reply(e, st, b, je) == [exc |-> e, status |-> st, body |-> b, jsonexc |-> je]
NoReply == Reply(NoExc, 0, ReplyBody("none", FALSE, PyNone), "")
PostOutcomes ==
    {Reply(Exc(c, x), 0, ReplyBody("none", FALSE, PyNone), "") :
        c \in ExcClasses, x \in ExcTexts}
    \cup {Reply(NoExc, st, b, "") :
        st \in Statuses, b \in {rb \in ReplyBodies : rb.shape # "unparsable"}}
    \cup {Reply(NoExc, st, ReplyBody("unparsable", FALSE, PyNone), je) :
        st \in Statuses, je \in {"RequestException", "Exception"}}

\* ------------------------------------------------------------------ state
VARIABLES
    conversation_history,  \* medical_bot.conversation_history
    model,                 \* medical_bot.model
    clock,                 \* what datetime.now() reads
    nreq,                  \* number of /chat requests accepted so far
    calls,                 \* inputs of the calls that returned generated text, in order
    pc,                    \* position of each request thread
    body,                  \* request.get_json() of the thread's request
    msg,                   \* user_message
    avail,                 \* value test_ollama_connection returned
    posts,                 \* POSTs the thread's call sent to /api/generate
    reply_status,          \* status code of the reply to the thread's POST
    ret,                   \* what process_medical_query returned
    http,                  \* the HTTP response chat() produced
    history_body,          \* body of the last GET /history response
    caller_ops             \* operations callers made on the list they were given

vars == <<conversation_history, model, clock, nreq, calls, pc, body, msg,
          avail, posts, reply_status, ret, http, history_body,
          caller_ops>>

glob == <<conversation_history, model, clock, nreq, calls, history_body,
          caller_ops>>

\* ------------------------------------------------------------------ results
FailedKinds == {"ConnectionError", "Timeout", "UpstreamError", "EmptyResponse",
                "NetworkError", "Internal"}
NoRet == [kind |-> "None", line |-> 0, value |-> PyNone]
Ok(v) == [kind |-> "Ok", line |-> 72, value |-> v]
Failed(kind, line, v) == [kind |-> kind, line |-> line, value |-> v]
Raised(e) == [kind |-> "Raised", line |-> 0,
              value |-> [PyNone EXCEPT !.exc = e.text]]

NoHttp == [status |-> 0, key |-> "", val |-> PyNone, timestamp |-> -1]
isoformat(t) == t
jsonify(key, v, ts) == [key |-> key, val |-> v, timestamp |-> ts]
Response(status, json) ==
    [status |-> status, key |-> json.key, val |-> json.val,
     timestamp |-> json.timestamp]

\* ------------------------------------------------- MedicalChatbot (lines 9-90)
\* test_ollama_connection: True only for a reply with status 200; the bare
\* except turns every exception into False.
test_ollama_connection(o) == (~o.raised) /\ o.status = HttpOk

\* Lines 26-27: where process_medical_query goes once the probe has answered.
after_probe_always_post(ok) == "post"
after_probe(ok) == IF ok THEN "post" ELSE "return27"

\* Line 27.
probe_failed ==
    Failed("ConnectionError", 27,
           PyStr("Cannot connect to Ollama server. Please make sure Ollama is running with 'ollama serve'"))

\* Lines 31-35: the f-string with user_input embedded verbatim.
medical_prompt(user_input) ==
    [PyStr("You are a helpful medical information assistant. ... User question: {user_input} ...")
        EXCEPT !.chars = user_input.chars]

\* Lines 66-70: the dict appended to conversation_history.
history_entry_prompt(user_input, ai_response, now) ==
    [user |-> medical_prompt(user_input), bot |-> ai_response,
     timestamp |-> isoformat(now)]
history_entry(user_input, ai_response, now) ==
    [user |-> user_input, bot |-> ai_response, timestamp |-> isoformat(now)]

\* list.append on conversation_history (line 66).
append_overwrite(list, entry) ==
    IF list = <<>> THEN <<entry>> ELSE [list EXCEPT ![Len(list)] = entry]
append(list, entry) == Append(list, entry)

\* Line 58.
is_success_2xx(status_code) == status_code \in 200..299
is_success(status_code) == status_code = HttpOk

\* What the try block (lines 29-76) does with the outcome of the POST: it
\* raises, or it returns; entries are what it appended to the log before.
Outcome(e, r, entries) == [exc |-> e, ret |-> r, entries |-> entries]

\* Lines 59-72.
on_success_append_first(rep, user_input, now, m) ==
    IF rep.body.shape = "unparsable"
    THEN Outcome(Exc(rep.jsonexc, "Expecting value: line 1 column 1 (char 0)"), NoRet, <<>>)
    ELSE IF rep.body.shape = "nonobject"
    THEN Outcome(Exc("Exception", "'list' object has no attribute 'get'"), NoRet, <<>>)
    ELSE LET ai_response == IF rep.body.has THEN rep.body.field ELSE PyStr("")
         IN  IF ~Truthy(ai_response)
             THEN Outcome(NoExc,
                    Failed("EmptyResponse", 63,
                           PyStr("Received empty response from AI model. Try asking your question differently.")),
                    <<history_entry(user_input, ai_response, now)>>)
             ELSE Outcome(NoExc, Ok(ai_response),
                          <<history_entry(user_input, ai_response, now)>>)
on_success(rep, user_input, now, m) ==
    IF rep.body.shape = "unparsable"
    THEN Outcome(Exc(rep.jsonexc, "Expecting value: line 1 column 1 (char 0)"), NoRet, <<>>)
    ELSE IF rep.body.shape = "nonobject"
    THEN Outcome(Exc("Exception", "'list' object has no attribute 'get'"), NoRet, <<>>)
    ELSE LET ai_response == IF rep.body.has THEN rep.body.field ELSE PyStr("")
         IN  IF ~Truthy(ai_response)
             THEN Outcome(NoExc,
                    Failed("EmptyResponse", 63,
                           PyStr("Received empty response from AI model. Try asking your question differently.")),
                    <<>>)
             ELSE Outcome(NoExc, Ok(ai_response),
                          <<history_entry(user_input, ai_response, now)>>)

\* Lines 73-76.
upstream_error(status_code, m) ==
    Failed("UpstreamError", 76,
           [PyStr("Ollama server error (Status {status_code}). Make sure the model '{model}' is installed with: ollama pull {model}")
               EXCEPT !.status = status_code, !.model = m])

\* Lines 49-76.
try_block(rep, user_input, now, m) ==
    IF rep.exc # NoExc THEN Outcome(rep.exc, NoRet, <<>>)
    ELSE IF is_success(rep.status) THEN on_success(rep, user_input, now, m)
    ELSE Outcome(NoExc, upstream_error(rep.status, m), <<>>)

\* Lines 78-86: the except clauses, tried in order.
except_clauses_no_catch_all(e) ==
    CASE e.class = "Timeout" ->
           Failed("Timeout", 79,
                  PyStr("Request timed out. The AI model might be loading. Please wait a moment and try again."))
      [] e.class = "ConnectionError" ->
           Failed("ConnectionError", 81,
                  PyStr("Cannot connect to Ollama server. Please ensure Ollama is running with 'ollama serve'"))
      [] e.class = "RequestException" ->
           Failed("NetworkError", 83,
                  [PyStr("Network error: {str(e)}") EXCEPT !.exc = e.text])
      [] OTHER -> Raised(e)
except_clauses(e) ==
    CASE e.class = "Timeout" ->
           Failed("Timeout", 79,
                  PyStr("Request timed out. The AI model might be loading. Please wait a moment and try again."))
      [] e.class = "ConnectionError" ->
           Failed("ConnectionError", 81,
                  PyStr("Cannot connect to Ollama server. Please ensure Ollama is running with 'ollama serve'"))
      [] e.class = "RequestException" ->
           Failed("NetworkError", 83,
                  [PyStr("Network error: {str(e)}") EXCEPT !.exc = e.text])
      [] OTHER ->
           Failed("Internal", 86,
                  PyStr("An unexpected error occurred. Please try again."))

\* Lines 88-90: the list object itself is returned, not a copy of it.
get_conversation_history == "conversation_history"

\* ------------------------------------------------------ chat (lines 101-125)
\* Lines 105-106: user_message, or the exception that the lookups raise.
Parsed(e, m) == [exc |-> e, message |-> m]
user_message(data) ==
    IF data.t = "none"
    THEN Parsed(Exc("Exception", "'NoneType' object has no attribute 'get'"), <<>>)
    ELSE LET m == IF data.has THEN data.message ELSE PyStr("")
         IN  IF m.t = "str" THEN Parsed(NoExc, strip(m.chars))
             ELSE IF m.t = "none"
             THEN Parsed(Exc("Exception", "'NoneType' object has no attribute 'strip'"), <<>>)
             ELSE Parsed(Exc("Exception", "'int' object has no attribute 'strip'"), <<>>)

\* Line 109.
empty_message ==
    Response(BadRequest, jsonify("error", PyStr("Message cannot be empty"), -1))

\* Lines 123-125.
server_error(e) ==
    Response(ServerError,
             jsonify("error", [PyStr("Server error: {str(e)}") EXCEPT !.exc = e.text], -1))

\* Lines 116-121: bot_response[:100] is evaluated for the log line before
\* the reply is built.
chat_reply(r, now) ==
    IF r.kind = "Raised" THEN server_error(Exc("Exception", r.value.exc))
    ELSE IF ~Sliceable(r.value)
    THEN server_error(Exc("Exception", "'int' object is not subscriptable"))
    ELSE Response(HttpOk, jsonify("response", r.value, isoformat(now)))

\* ------------------------------------------------------------------ Init
Init ==
    /\ conversation_history = <<>>
    /\ model = DefaultModel
    /\ clock = 0
    /\ nreq = 0
    /\ calls = <<>>
    /\ pc = [p \in Procs |-> "idle"]
    /\ body = [p \in Procs |-> NoBody]
    /\ msg = [p \in Procs |-> <<>>]
    /\ avail = [p \in Procs |-> FALSE]
    /\ posts = [p \in Procs |-> 0]
    /\ reply_status = [p \in Procs |-> 0]
    /\ ret = [p \in Procs |-> NoRet]
    /\ http = [p \in Procs |-> NoHttp]
    /\ history_body = <<>>
    /\ caller_ops = 0

\* ------------------------------------------------------------------ actions
\* POST /chat arrives on thread p with JSON body data: lines 105-109, and
\* lines 123-125 when the lookups raise.
chat(p, data) ==
    /\ pc[p] \in {"idle", "done"}
    /\ nreq < MaxRequests
    /\ nreq' = nreq + 1
    /\ body' = [body EXCEPT ![p] = data]
    /\ avail' = [avail EXCEPT ![p] = FALSE]
    /\ posts' = [posts EXCEPT ![p] = 0]
    /\ reply_status' = [reply_status EXCEPT ![p] = 0]
    /\ ret' = [ret EXCEPT ![p] = NoRet]
    /\ LET um == user_message(data)
       IN  IF um.exc # NoExc
           THEN /\ http' = [http EXCEPT ![p] = server_error(um.exc)]
                /\ msg' = [msg EXCEPT ![p] = <<>>]
                /\ pc' = [pc EXCEPT ![p] = "done"]
           ELSE IF um.message = <<>>
           THEN /\ http' = [http EXCEPT ![p] = empty_message]
                /\ msg' = [msg EXCEPT ![p] = <<>>]
                /\ pc' = [pc EXCEPT ![p] = "done"]
           ELSE /\ http' = [http EXCEPT ![p] = NoHttp]
                /\ msg' = [msg EXCEPT ![p] = um.message]
                /\ pc' = [pc EXCEPT ![p] = "probe"]
    /\ UNCHANGED <<conversation_history, model, clock, calls, history_body,
                   caller_ops>>

\* process_medical_query, lines 26-27: the probe answers with outcome o.
probe(p, o) ==
    /\ pc[p] = "probe"
    /\ LET ok == test_ollama_connection(o)
       IN  /\ avail' = [avail EXCEPT ![p] = ok]
           /\ IF after_probe(ok) = "post"
              THEN /\ pc' = [pc EXCEPT ![p] = "post"]
                   /\ UNCHANGED ret
              ELSE /\ pc' = [pc EXCEPT ![p] = "respond"]
                   /\ ret' = [ret EXCEPT ![p] = probe_failed]
    /\ UNCHANGED <<conversation_history, model, clock, nreq, calls, body, msg, posts,
                   reply_status, http, history_body, caller_ops>>

\* process_medical_query, lines 49-54: the generation request goes out.
post(p) ==
    /\ pc[p] = "post"
    /\ posts' = [posts EXCEPT ![p] = @ + 1]
    /\ pc' = [pc EXCEPT ![p] = "await"]
    /\ UNCHANGED <<glob, body, msg, avail, reply_status, ret, http>>

\* process_medical_query, lines 56-86: requests.post comes back with
\* outcome rep (a reply or an exception); it is classified, a successful
\* exchange is appended with the time read at line 69, and the call returns.
process_medical_query(p, rep) ==
    /\ pc[p] = "await"
    /\ reply_status' = [reply_status EXCEPT ![p] = rep.status]
    /\ LET out == try_block(rep, PyChars(msg[p]), clock, model)
           r == IF out.exc # NoExc THEN except_clauses(out.exc) ELSE out.ret
       IN  /\ conversation_history' =
                  IF out.entries = <<>> THEN conversation_history
                  ELSE append(conversation_history, out.entries[1])
           /\ clock' = IF out.entries = <<>> THEN clock ELSE clock + 1
           /\ ret' = [ret EXCEPT ![p] = r]
           /\ calls' = IF r.kind = "Ok" THEN Append(calls, PyChars(msg[p])) ELSE calls
    /\ pc' = [pc EXCEPT ![p] = "respond"]
    /\ UNCHANGED <<model, nreq, body, msg, avail, posts, http, history_body,
                   caller_ops>>

\* chat, lines 116-125: the reply to the browser, stamped with the time read
\* at line 120.
chat_respond(p) ==
    /\ pc[p] = "respond"
    /\ LET r == chat_reply(ret[p], clock)
       IN  /\ http' = [http EXCEPT ![p] = r]
           /\ clock' = IF r.status = HttpOk THEN clock + 1 ELSE clock
    /\ pc' = [pc EXCEPT ![p] = "done"]
    /\ UNCHANGED <<conversation_history, model, nreq, calls, history_body,
                   caller_ops, body, msg, avail, posts, reply_status, ret>>

\* GET /history, lines 127-131: the list get_conversation_history returns is
\* serialized as it stands.
get_history ==
    /\ history_body' = IF get_conversation_history = "conversation_history"
                       THEN conversation_history ELSE <<>>
    /\ UNCHANGED <<conversation_history, model, clock, nreq, calls, pc, body,
                   msg, avail, posts, reply_status, ret, http, caller_ops>>

\* A caller of get_conversation_history changes the list it was given: it
\* drops the last entry or blanks the first one.  The list is the object
\* conversation_history names, so the log changes with it.
caller_mutates ==
    /\ caller_ops < MaxCallerOps
    /\ caller_ops' = caller_ops + 1
    /\ conversation_history # <<>>
    /\ IF get_conversation_history = "conversation_history"
       THEN \/ conversation_history' =
                  SubSeq(conversation_history, 1, Len(conversation_history) - 1)
            \/ conversation_history' =
                  [conversation_history EXCEPT ![1].bot = PyStr("")]
       ELSE UNCHANGED conversation_history
    /\ UNCHANGED <<model, clock, nreq, calls, pc, body, msg, avail, posts,
                   reply_status, ret, http, history_body>>

Next ==
    \/ \E p \in Procs, data \in Bodies : chat(p, data)
    \/ \E p \in Procs, o \in ProbeOutcomes : probe(p, o)
    \/ \E p \in Procs : post(p)
    \/ \E p \in Procs, rep \in PostOutcomes : process_medical_query(p, rep)
    \/ \E p \in Procs : chat_respond(p)
    \/ get_history

Spec == Init /\ [][Next]_vars

\* The program together with a caller that changes the list it is handed.
NextCaller == Next \/ caller_mutates

SpecCaller == Init /\ [][NextCaller]_vars

\* ------------------------------------------------------------------ claims
Returned(p) == ret[p].kind # "None"
Returns(p) == ret[p].kind = "None" /\ ret'[p].kind # "None"
Complete(e) ==
    /\ DOMAIN e = {"user", "bot", "timestamp"}
    /\ Truthy(e.user) /\ Truthy(e.bot) /\ e.timestamp >= 0

\* C1: a call of process_medical_query adds exactly one entry at the end of
\* conversation_history if and only if it returns generated, non-empty text;
\* a call that returns any failure message leaves the log as it was, and the
\* log changes in no other step.
C1_LogGrowsIffOk ==
    [][ /\ \A p \in Procs : Returns(p) =>
              /\ (ret'[p].kind = "Ok" /\ Truthy(ret'[p].value))
                   <=> /\ Len(conversation_history') = Len(conversation_history) + 1
                       /\ SubSeq(conversation_history', 1, Len(conversation_history))
                            = conversation_history
              /\ ret'[p].kind \in FailedKinds =>
                   conversation_history' = conversation_history
        /\ conversation_history' # conversation_history =>
              \E p \in Procs : Returns(p) /\ ret'[p].kind = "Ok"
      ]_vars

\* One call has returned text and is in the log, another has timed out.
C1_Witness ==
    /\ Len(conversation_history) = 1
    /\ \E p, q \in Procs :
          /\ ret[p].kind = "Ok" /\ conversation_history[1].bot = ret[p].value
          /\ ret[q].kind = "Timeout"

\* C2: when test_ollama_connection returned False the call sends no request
\* to the generation endpoint and returns the connection-error message.
C2_NoPostWhenUnavailable ==
    \A p \in Procs :
        ~avail[p] =>
            /\ posts[p] = 0
            /\ Returned(p) => ret[p] = probe_failed /\ ret[p].kind = "ConnectionError"

\* A request whose probe failed has been answered without any POST.
C2_Witness ==
    \E p \in Procs :
        /\ pc[p] = "done" /\ msg[p] # <<>> /\ ~avail[p]
        /\ ret[p].line = 27 /\ posts[p] = 0
        /\ http[p].val = probe_failed.value

\* C3: the log holds one entry per call that returned generated text, in the
\* order the calls returned, and the entry's user text is the call's input.
C3_RoundTrip ==
    /\ Len(conversation_history) = Len(calls)
    /\ \A i \in 1..Len(calls) : conversation_history[i].user = calls[i]

\* Two successful calls with different inputs, and one failed call: three
\* requests were made, two are in the log.
C3_Witness ==
    /\ Len(conversation_history) = 2
    /\ conversation_history[1].user # conversation_history[2].user
    /\ nreq = 3
    /\ \E p \in Procs : pc[p] = "done" /\ ret[p].kind \in FailedKinds

\* C4: every call of process_medical_query on a non-blank message returns a
\* value that is either the generated text (line 72) or one of the failure
\* messages, never both, and no exception leaves the call.
C4_OkOrFailed ==
    \A p \in Procs :
        (pc[p] = "respond" \/ (pc[p] = "done" /\ msg[p] # <<>>)) =>
            /\ ret[p].kind \in {"Ok"} \cup FailedKinds
            /\ ret[p].kind # "Raised"
            /\ (ret[p].kind = "Ok") <=> (ret[p].line = 72)
            /\ ret[p].kind \in FailedKinds =>
                   ret[p].value.t = "str" /\ ret[p].value.s # ""

\* A call whose POST raised an unclassified exception has returned.
C4_Witness ==
    \E p \in Procs :
        pc[p] = "respond" /\ ret[p].kind = "Internal" /\ reply_status[p] = 0

\* C5: nothing a caller does to the value get_conversation_history returned
\* changes the log.
C5_SnapshotIsolated ==
    [][caller_ops' # caller_ops =>
          conversation_history' = conversation_history]_vars

\* C6: with request threads interleaved, every call that returned generated
\* text has its own complete entry in the log, the log has as many entries
\* as such calls, and GET /history never serializes an incomplete entry.
C6_AppendsSerialized ==
    /\ Len(conversation_history) = Len(calls)
    /\ \A i \in 1..Len(conversation_history) : Complete(conversation_history[i])
    /\ \A i \in 1..Len(history_body) : Complete(history_body[i])
    /\ \A p \in Procs : ret[p].kind = "Ok" =>
          \E i \in 1..Len(conversation_history) :
              /\ conversation_history[i].user = PyChars(msg[p])
              /\ conversation_history[i].bot = ret[p].value
    /\ \A p, q \in Procs :
          (p # q /\ ret[p].kind = "Ok" /\ ret[q].kind = "Ok") =>
              Len(conversation_history) >= 2

\* Both threads were inside process_medical_query together and both
\* returned text; GET /history was served between their two appends.
C6_Witness ==
    /\ \A p \in Procs : pc[p] = "respond" /\ ret[p].kind = "Ok"
    /\ Len(conversation_history) = 2
    /\ Len(history_body) = 1

MissingOrBlank(data) ==
    \/ data.t = "none"
    \/ ~data.has
    \/ data.message.t = "none"
    \/ data.message.t = "str" /\ strip(data.message.chars) = <<>>
C8_EmptyMessageIs400 ==
    \A p \in Procs :
        (pc[p] = "done" /\ MissingOrBlank(body[p])) => http[p] = empty_message

\* C9: a POST /chat with a non-blank message is answered 200 with whatever
\* process_medical_query returned as "response", and a timestamp.
NonBlank(data) ==
    data.t = "obj" /\ data.has /\ data.message.t = "str"
    /\ strip(data.message.chars) # <<>>
C9_GatewayResultIs200 ==
    \A p \in Procs :
        (pc[p] = "done" /\ NonBlank(body[p])) =>
            /\ http[p].status = HttpOk
            /\ http[p].key = "response"
            /\ http[p].val = ret[p].value
            /\ http[p].timestamp >= 0

\* C10: two requests that went the same way except for the text of the
\* exception that was raised get the same reply body.
SameButExceptionText(p, q) ==
    /\ body[p] = body[q]
    /\ avail[p] = avail[q]
    /\ reply_status[p] = reply_status[q]
    /\ ret[p].kind = ret[q].kind
    /\ ret[p].line = ret[q].line
    /\ [ret[p].value EXCEPT !.exc = ""] = [ret[q].value EXCEPT !.exc = ""]
C10_NoExceptionText ==
    \A p, q \in Procs :
        (pc[p] = "done" /\ pc[q] = "done" /\ SameButExceptionText(p, q)) =>
            /\ http[p].status = http[q].status
            /\ http[p].key = http[q].key
            /\ http[p].val = http[q].val

====
